---- MODULE Spec2Model ----
(***************************************************************************)
(* A model of ExAuto.py: the use-case extraction pipeline.                 *)
(*                                                                         *)
(* Texts are sequences of one-character strings.  The remote text          *)
(* generation service, the recipients file and the mail server are the     *)
(* environment: their answers are drawn from small sets.  The functions    *)
(* smart_split_text and extract_use_cases take parameters, so besides      *)
(* main (which calls them with their defaults) they are also entered       *)
(* directly with parameters drawn from small sets.                         *)
(***************************************************************************)
EXTENDS Integers, Sequences, FiniteSets, TLC

(* ------------------------------ bounds --------------------------------- *)

\* longest text handed to a direct call of smart_split_text
MaxTextLen == 5
\* largest model_max_tokens handed to a direct call of smart_split_text
MaxTokens == 3
\* largest max_retries handed to a direct call of extract_use_cases
MaxRetries == 3
\* the remote service fails at most this many times in a row
MaxFailures == 6
\* most lines of a recipients file
MaxLines == 2

(* ------------------------- program constants --------------------------- *)

DefaultModelMaxTokens == 3000
DefaultBufferTokens == 500
DefaultMaxRetries == 5

(* ------------------------------- texts --------------------------------- *)

Whitespace == {" ", "\n", "\t"}
Letters == {"a", "b", "c", "d", "e", "g", "i", "l", "m", "n", "o", "r", "t"}
Digits == {"0", "1", "2", "3", "4", "5", "6", "7", "8", "9"}

Min(a, b) == IF a < b THEN a ELSE b

IsSpace(c) == c \in Whitespace

Indices(text) == [i \in 1..Len(text) |-> i]

\* str.split(): the maximal runs of non-whitespace characters, in order
split(text) ==
  LET n == Len(text)
      starts == SelectSeq(Indices(text),
                  LAMBDA i : ~IsSpace(text[i]) /\ (i = 1 \/ IsSpace(text[i-1])))
      ends == SelectSeq(Indices(text),
                  LAMBDA i : ~IsSpace(text[i]) /\ (i = n \/ IsSpace(text[i+1])))
  IN [k \in 1..Len(starts) |-> SubSeq(text, starts[k], ends[k])]

RECURSIVE joinRange(_, _, _, _)
joinRange(sep, ws, lo, hi) ==
  IF lo > hi THEN <<>>
  ELSE IF lo = hi THEN ws[lo]
  ELSE LET mid == (lo + hi) \div 2
       IN joinRange(sep, ws, lo, mid) \o sep \o joinRange(sep, ws, mid + 1, hi)

\* sep.join(ws)
join(sep, ws) == joinRange(sep, ws, 1, Len(ws))

\* str.strip(): leading and trailing whitespace removed
strip(text) ==
  LET keep == {i \in 1..Len(text) : ~IsSpace(text[i])}
  IN IF keep = {} THEN <<>>
     ELSE SubSeq(text, CHOOSE i \in keep : \A j \in keep : i <= j,
                       CHOOSE i \in keep : \A j \in keep : i >= j)

\* all texts of at most n characters over the alphabet
TextsUpTo(alphabet, n) == UNION {[1..k -> alphabet] : k \in 0..n}

(* ------------------------------ chunker -------------------------------- *)

\* line 47, mutated: a text of exactly max_words_per_chunk words is re-joined
FitsInOneChunkStrict(total_words, max_words_per_chunk) ==
  total_words < max_words_per_chunk

FitsInOneChunk(total_words, max_words_per_chunk) ==
  total_words <= max_words_per_chunk

\* line 52, mutated: the slice stops one word early
ChunkWordsShort(words, i, max_words_per_chunk) ==
  SubSeq(words, i + 1, Min(i + max_words_per_chunk - 1, Len(words)))

\* words[i:i + max_words_per_chunk], i counted from 0 as in the source
ChunkWords(words, i, max_words_per_chunk) ==
  SubSeq(words, i + 1, Min(i + max_words_per_chunk, Len(words)))

\* for i in range(0, total_words, max_words_per_chunk) with a positive step
RECURSIVE ChunkLoop(_, _, _, _)
ChunkLoop(words, i, max_words_per_chunk, chunks) ==
  IF i >= Len(words) THEN chunks
  ELSE ChunkLoop(words, i + max_words_per_chunk, max_words_per_chunk,
         Append(chunks, join(<<" ">>, ChunkWords(words, i, max_words_per_chunk))))

\* The result of a call: the exception it raised ("none" when it returned)
\* and the value it returned.
Returned(v) == [raised |-> "none", value |-> v]
Raised(e) == [raised |-> e, value |-> <<>>]

smart_split_text(text, model_max_tokens, buffer_tokens) ==
  LET words == split(text)
      total_words == Len(words)
      max_words_per_chunk == model_max_tokens - buffer_tokens
  IN IF FitsInOneChunk(total_words, max_words_per_chunk) THEN Returned(<<text>>)
     ELSE IF max_words_per_chunk = 0 THEN Raised("ValueError")  \* range() arg 3 must not be zero
     ELSE IF max_words_per_chunk < 0 THEN Returned(<<>>)        \* empty range
     ELSE Returned(ChunkLoop(words, 0, max_words_per_chunk, <<>>))

(* ----------------------------- recipients ------------------------------ *)

LocalChars == Letters \cup Digits \cup {".", "_", "%", "+", "-"}
DomainChars == Letters \cup Digits \cup {".", "-"}

\* re.match(r'^[a-zA-Z0-9._%+-]+@[a-zA-Z0-9.-]+\.[a-zA-Z]{2,}$', email)
is_valid_email(email) ==
  LET n == Len(email)
  IN \E at \in 2..n :
       /\ email[at] = "@"
       /\ \A i \in 1..(at - 1) : email[i] \in LocalChars
       /\ \E dot \in (at + 2)..(n - 2) :
            /\ email[dot] = "."
            /\ \A i \in (at + 1)..(dot - 1) : email[i] \in DomainChars
            /\ \A i \in (dot + 1)..n : email[i] \in Letters

\* line 108, mutated: the lines are kept with their surrounding whitespace
StrippedLinesRaw(lines) ==
  SelectSeq(lines, LAMBDA line : strip(line) # <<>>)

\* [line.strip() for line in file if line.strip()]
StrippedLines(lines) ==
  SelectSeq([k \in 1..Len(lines) |-> strip(lines[k])], LAMBDA line : line # <<>>)

\* [email for email in recipient_emails if is_valid_email(email)]
ValidEmails(recipient_emails) ==
  SelectSeq(recipient_emails, LAMBDA email : is_valid_email(email))

Range(s) == {s[k] : k \in 1..Len(s)}

\* A recipients file: unreadable, or its lines.
Unreadable == [readable |-> FALSE, lines |-> <<>>]
Readable(lines) == [readable |-> TRUE, lines |-> lines]

\* The value returned and the set of addresses in the printed warning.
read_recipients_from_file(file) ==
  IF ~file.readable THEN [emails |-> <<>>, warned |-> {}]
  ELSE LET recipient_emails == StrippedLines(file.lines)
           valid_emails == ValidEmails(recipient_emails)
       IN [emails |-> valid_emails,
           warned |-> Range(recipient_emails) \ Range(valid_emails)]

(* ------------------------------ inputs --------------------------------- *)

\* the characters of the texts handed to a direct call of smart_split_text
Alphabet == {"a", "b", " ", "\n"}

\* A document of n one-letter words, separated by a space or a newline.
Doc(n) ==
  [i \in 1..(2 * n - 1) |->
     IF i % 2 = 1 THEN (IF ((i + 1) \div 2) % 3 = 0 THEN "b" ELSE "a")
     ELSE (IF i % 4 = 0 THEN "\n" ELSE " ")]

\* The documents main is run on, each as the parts (the whole text, the
\* pages or the paragraphs) its file holds: an empty file, a short one with
\* surrounding whitespace, and one of 2 * 2500 + 1 words.
SmallDoc == <<" ", "a", " ", " ", "b", "\n">>
BigDoc == Doc(2 * (DefaultModelMaxTokens - DefaultBufferTokens) + 1)
Documents == {<<>>, <<SmallDoc>>, <<BigDoc>>}

Extensions == {".txt", ".pdf", ".docx", ".csv"}

\* what the remote service can generate
Responses == {"r1", "r2"}

\* candidate lines of a recipients file
CandidateLines ==
  { <<"a", "@", "b", ".", "c", "o">>,
    <<" ", "c", "@", "d", ".", "o", "r", "g", "\n">>,
    <<"n", "o", "t", "-", "a", "n", "-", "e", "m", "a", "i", "l">>,
    <<"a", "@", "b", ".", "c">>,
    <<"a", "@", "b", ".", "c", "1">>,
    <<"@", "b", ".", "c", "o">>,
    <<" ", "\t">> }

RecipientFiles ==
  {Unreadable} \cup {Readable(ls) : ls \in TextsUpTo(CandidateLines, MaxLines)}

(* ------------------------------- state --------------------------------- *)

VARIABLES
  entry,                  \* the function entered: "none", "main", "smart_split_text", "extract_use_cases"
  pc,                     \* where the run is
  exit,                   \* "running", or the exit status of main: "0", "1"
  raised,                 \* the exception that left the entered function, "none" if none
  stdout,                 \* the outcome messages printed, in order
  ext,                    \* main: the extension of the input path, lower-cased
  raw_text,               \* the text to split
  model_max_tokens,       \* smart_split_text's parameters
  buffer_tokens,
  chunks,                 \* smart_split_text's result
  chunkIdx,               \* main: the chunk the loop is at, from 1
  all_structured_outputs, \* main: the results so far
  exState,                \* extract_use_cases: "None" outside a call, else the extraction's state
  max_retries,            \* extract_use_cases: its parameter
  attempt,                \* extract_use_cases: its counter
  wait_time,              \* extract_use_cases: the time of the current or last sleep
  response,               \* extract_use_cases: the value it returns
  failuresBeforeSuccess,  \* the service: how many calls of this extraction fail before one succeeds
  calls,                  \* history: remote calls made by this extraction
  callLog,                \* history: per remote call of this extraction, its attempt index and the sleep right before it
  waits,                  \* history: the sleeps of this extraction, in order
  extractions,            \* history: how many times extract_use_cases was entered
  calledChunks,           \* history: the chunks a remote call was made for
  responseFor,            \* history: the response the service returned for each chunk
  exhaustedChunk,         \* history: the chunk whose extraction raised, 0 if none
  recipientFile,          \* the recipients file that was read
  recipientsRead,         \* whether read_recipients_from_file was called
  recipient_emails,       \* main: the recipients
  warned,                 \* the addresses of the printed warning
  deliveries,             \* how many times send_docx_via_email was called
  delivered,              \* the arguments of the last call of send_docx_via_email
  document,               \* the composed document: its chunk sections
  emailSent               \* whether the mail server accepted the message

frameVars == <<exState, max_retries, attempt, wait_time, response,
               failuresBeforeSuccess, calls, callLog, waits>>
splitVars == <<raw_text, model_max_tokens, buffer_tokens, chunks>>
mailVars == <<recipientFile, recipientsRead, recipient_emails, warned,
              deliveries, delivered, document, emailSent>>
histVars == <<extractions, calledChunks, responseFor, exhaustedChunk>>
vars == <<entry, pc, exit, raised, stdout, ext, chunkIdx, all_structured_outputs,
          frameVars, splitVars, mailVars, histVars>>

NoDelivery == [structured_texts |-> <<>>, recipient_emails |-> <<>>]

\* no call of extract_use_cases is active
NoFrame ==
  /\ exState = "None"
  /\ max_retries = 0
  /\ attempt = 0
  /\ wait_time = 0
  /\ response = "none"
  /\ failuresBeforeSuccess = 0
  /\ calls = 0
  /\ callLog = <<>>
  /\ waits = <<>>

Init ==
  /\ entry = "none"
  /\ pc = "idle"
  /\ exit = "running"
  /\ raised = "none"
  /\ stdout = <<>>
  /\ ext = ""
  /\ raw_text = <<>>
  /\ model_max_tokens = DefaultModelMaxTokens
  /\ buffer_tokens = DefaultBufferTokens
  /\ chunks = <<>>
  /\ chunkIdx = 0
  /\ all_structured_outputs = <<>>
  /\ NoFrame
  /\ extractions = 0
  /\ calledChunks = {}
  /\ responseFor = <<>>
  /\ exhaustedChunk = 0
  /\ recipientFile = Unreadable
  /\ recipientsRead = FALSE
  /\ recipient_emails = <<>>
  /\ warned = {}
  /\ deliveries = 0
  /\ delivered = NoDelivery
  /\ document = <<>>
  /\ emailSent = FALSE

(* --------------------------- smart_split_text -------------------------- *)

\* A direct call smart_split_text(text, model_max_tokens, buffer_tokens).
CallSmartSplitText ==
  /\ pc = "idle"
  /\ \E text \in TextsUpTo(Alphabet, MaxTextLen), mmt \in 0..MaxTokens, bt \in 0..1 :
       LET r == smart_split_text(text, mmt, bt)
       IN /\ raw_text' = text
          /\ model_max_tokens' = mmt
          /\ buffer_tokens' = bt
          /\ chunks' = r.value
          /\ raised' = r.raised
          /\ pc' = IF r.raised = "none" THEN "returned" ELSE "raised"
  /\ entry' = "smart_split_text"
  /\ UNCHANGED <<exit, stdout, ext, chunkIdx, all_structured_outputs,
                 frameVars, mailVars, histVars>>

(* --------------------------- extract_use_cases ------------------------- *)

\* line 82, mutated: one attempt too many
LoopConditionInclusive(a, m) == a <= m

\* while attempt < max_retries
LoopCondition(a, m) == a < m

\* line 94, mutated: the wait grows linearly
BackoffLinear(a) == 2 * a

\* line 94, mutated: the exponent is one too large
BackoffNext(a) == 2 ^ (a + 1)

\* wait_time = 2 ** attempt
Backoff(a) == 2 ^ a

\* Lines 58-81: the function is entered with its prompt built and attempt = 0.
\* f is the service's behaviour during this call: its first f answers are
\* failures.
EnterExtract(m, f) ==
  /\ exState' = "Pending"
  /\ max_retries' = m
  /\ attempt' = 0
  /\ wait_time' = 0
  /\ response' = "none"
  /\ failuresBeforeSuccess' = f
  /\ calls' = 0
  /\ callLog' = <<>>
  /\ waits' = <<>>
  /\ extractions' = extractions + 1

\* Lines 82-90 and 99: the loop test with the counter at a, then either the
\* remote call is sent or the loop is left and RuntimeError raised.  slept is
\* the sleep that came right before the test (0 when there was none).
TestAndCall(a, slept) ==
  IF LoopCondition(a, max_retries)
  THEN /\ exState' = "Calling"
       /\ calls' = calls + 1
       /\ callLog' = Append(callLog, [attempt |-> a, waited |-> slept])
       /\ calledChunks' = calledChunks \cup {chunkIdx}
       /\ UNCHANGED exhaustedChunk
  ELSE /\ exState' = "Exhausted"
       /\ exhaustedChunk' = chunkIdx
       /\ UNCHANGED <<calls, callLog, calledChunks>>

\* A direct call extract_use_cases(text, max_retries).
CallExtractUseCases ==
  /\ pc = "idle"
  /\ \E m \in -1..MaxRetries, f \in 0..MaxFailures : EnterExtract(m, f)
  /\ entry' = "extract_use_cases"
  /\ pc' = "extract"
  /\ UNCHANGED <<exit, raised, stdout, ext, chunkIdx, all_structured_outputs,
                 splitVars, mailVars, calledChunks, responseFor, exhaustedChunk>>

\* The first loop test.
FirstAttempt ==
  /\ pc = "extract"
  /\ exState = "Pending"
  /\ TestAndCall(attempt, 0)
  /\ UNCHANGED <<entry, pc, exit, raised, stdout, ext, chunkIdx, all_structured_outputs,
                 max_retries, attempt, wait_time, response, failuresBeforeSuccess, waits,
                 splitVars, mailVars, extractions, responseFor>>

\* Line 91: the remote call returns the generated text.
CallReturns ==
  /\ pc = "extract"
  /\ exState = "Calling"
  /\ calls > failuresBeforeSuccess
  /\ \E r \in Responses :
       /\ response' = r
       /\ responseFor' = Append(responseFor, r)
  /\ exState' = "Success"
  /\ UNCHANGED <<entry, pc, exit, raised, stdout, ext, chunkIdx, all_structured_outputs,
                 max_retries, attempt, wait_time, failuresBeforeSuccess, calls, callLog,
                 waits, splitVars, mailVars, extractions, calledChunks, exhaustedChunk>>

\* Lines 92-96: the remote call raises; the wait is computed and the sleep begins.
CallFails ==
  /\ pc = "extract"
  /\ exState = "Calling"
  /\ calls <= failuresBeforeSuccess
  /\ wait_time' = Backoff(attempt)
  /\ exState' = "WaitingBackoff"
  /\ UNCHANGED <<entry, pc, exit, raised, stdout, ext, chunkIdx, all_structured_outputs,
                 max_retries, attempt, response, failuresBeforeSuccess, calls, callLog,
                 waits, splitVars, mailVars, histVars>>

\* Lines 96-97, 82 and 99: the sleep ends, the counter is incremented and the
\* loop test made again.
SleepEnds ==
  /\ pc = "extract"
  /\ exState = "WaitingBackoff"
  /\ waits' = Append(waits, wait_time)
  /\ attempt' = attempt + 1
  /\ TestAndCall(attempt + 1, wait_time)
  /\ UNCHANGED <<entry, pc, exit, raised, stdout, ext, chunkIdx, all_structured_outputs,
                 max_retries, wait_time, response, failuresBeforeSuccess,
                 splitVars, mailVars, extractions, responseFor>>

\* The call's frame is dropped when it returns or raises.
DropFrame ==
  /\ exState' = "None"
  /\ max_retries' = 0
  /\ attempt' = 0
  /\ wait_time' = 0
  /\ response' = "none"
  /\ failuresBeforeSuccess' = 0
  /\ calls' = 0
  /\ callLog' = <<>>
  /\ waits' = <<>>

\* The direct call returns its response.
DirectReturn ==
  /\ entry = "extract_use_cases"
  /\ pc = "extract"
  /\ exState = "Success"
  /\ DropFrame
  /\ pc' = "returned"
  /\ UNCHANGED <<entry, exit, raised, stdout, ext, chunkIdx, all_structured_outputs,
                 splitVars, mailVars, histVars>>

\* The direct call raises RuntimeError.
DirectRaise ==
  /\ entry = "extract_use_cases"
  /\ pc = "extract"
  /\ exState = "Exhausted"
  /\ DropFrame
  /\ pc' = "raised"
  /\ raised' = "RuntimeError"
  /\ UNCHANGED <<entry, exit, stdout, ext, chunkIdx, all_structured_outputs,
                 splitVars, mailVars, histVars>>

(* --------------------------------- main -------------------------------- *)

\* read_document on a file with the given parts
read_document(e, parts) ==
  IF e \in {".pdf", ".docx"}
  THEN Returned(join(<<>>, [k \in 1..Len(parts) |-> parts[k] \o <<"\n">>]))
  ELSE IF e = ".txt" THEN Returned(join(<<>>, parts))
  ELSE Raised("ValueError")

\* line 181, mutated: the result is put first
AppendResultFirst(outputs, structured_text) == <<structured_text>> \o outputs

\* all_structured_outputs.append(structured_text)
AppendResult(outputs, structured_text) == Append(outputs, structured_text)

\* lines 126-127: one section per structured text, numbered from 1
ComposeDocument(structured_texts) ==
  [idx \in 1..Len(structured_texts) |->
     [heading |-> idx, text |-> structured_texts[idx]]]

\* main(input_path, recipient_path) is entered.
MainStart ==
  /\ pc = "idle"
  /\ \E e \in Extensions : ext' = e
  /\ entry' = "main"
  /\ pc' = "read"
  /\ UNCHANGED <<exit, raised, stdout, chunkIdx, all_structured_outputs,
                 frameVars, splitVars, mailVars, histVars>>

\* Line 172: the document is read; an unsupported extension ends the run.
ReadDocument ==
  /\ pc = "read"
  /\ \E parts \in Documents :
       LET r == read_document(ext, parts)
       IN /\ raw_text' = r.value
          /\ raised' = r.raised
          /\ pc' = IF r.raised = "none" THEN "split" ELSE "failed"
          /\ exit' = IF r.raised = "none" THEN exit ELSE "1"
  /\ UNCHANGED <<entry, stdout, ext, chunkIdx, all_structured_outputs, model_max_tokens,
                 buffer_tokens, chunks, frameVars, mailVars, histVars>>

\* Lines 174-177: the text is split with the default budget.
SplitDocument ==
  /\ pc = "split"
  /\ chunks' = smart_split_text(raw_text, DefaultModelMaxTokens, DefaultBufferTokens).value
  /\ all_structured_outputs' = <<>>
  /\ chunkIdx' = 1
  /\ pc' = "loop"
  /\ UNCHANGED <<entry, exit, raised, stdout, ext, raw_text, model_max_tokens,
                 buffer_tokens, frameVars, mailVars, histVars>>

\* Lines 179-180: extract_use_cases is called on the next chunk.
ExtractChunk ==
  /\ pc = "loop"
  /\ chunkIdx <= Len(chunks)
  /\ \E f \in 0..MaxFailures : EnterExtract(DefaultMaxRetries, f)
  /\ pc' = "extract"
  /\ UNCHANGED <<entry, exit, raised, stdout, ext, chunkIdx, all_structured_outputs,
                 splitVars, mailVars, calledChunks, responseFor, exhaustedChunk>>

\* Lines 180-181: the call returns and its result is appended.
AppendOutput ==
  /\ entry = "main"
  /\ pc = "extract"
  /\ exState = "Success"
  /\ all_structured_outputs' = AppendResult(all_structured_outputs, response)
  /\ chunkIdx' = chunkIdx + 1
  /\ DropFrame
  /\ pc' = "loop"
  /\ UNCHANGED <<entry, exit, raised, stdout, ext, splitVars, mailVars, histVars>>

\* lines 99 and 180, mutated: the failed chunk is skipped and the loop goes on
SkipChunk ==
  /\ entry = "main"
  /\ pc = "extract"
  /\ exState = "Exhausted"
  /\ chunkIdx' = chunkIdx + 1
  /\ DropFrame
  /\ pc' = "loop"
  /\ UNCHANGED <<entry, exit, raised, stdout, ext, all_structured_outputs,
                 splitVars, mailVars, histVars>>

\* Lines 99 and 180: the call raises RuntimeError, which nothing in main
\* catches: the run ends.
Abort ==
  /\ entry = "main"
  /\ pc = "extract"
  /\ exState = "Exhausted"
  /\ DropFrame
  /\ raised' = "RuntimeError"
  /\ pc' = "failed"
  /\ exit' = "1"
  /\ UNCHANGED <<entry, stdout, ext, chunkIdx, all_structured_outputs,
                 splitVars, mailVars, histVars>>

\* Lines 183-184: the loop is over and the recipients are read.
ReadRecipients ==
  /\ pc = "loop"
  /\ chunkIdx > Len(chunks)
  /\ \E file \in RecipientFiles :
       LET r == read_recipients_from_file(file)
       IN /\ recipientFile' = file
          /\ recipient_emails' = r.emails
          /\ warned' = r.warned
  /\ recipientsRead' = TRUE
  /\ pc' = "send"
  /\ UNCHANGED <<entry, exit, raised, stdout, ext, chunkIdx, all_structured_outputs,
                 frameVars, splitVars, histVars, deliveries, delivered, document, emailSent>>

\* Lines 188-158: send_docx_via_email is called; it composes the document and
\* the message.
InvokeDelivery ==
  /\ pc = "send"
  /\ deliveries' = deliveries + 1
  /\ delivered' = [structured_texts |-> all_structured_outputs,
                   recipient_emails |-> recipient_emails]
  /\ document' = ComposeDocument(all_structured_outputs)
  /\ pc' = "smtp"
  /\ UNCHANGED <<entry, exit, raised, stdout, ext, chunkIdx, all_structured_outputs,
                 frameVars, splitVars, histVars, recipientFile, recipientsRead,
                 recipient_emails, warned, emailSent>>

\* line 194 and the end of the script
Finish(messages) ==
  /\ stdout' = stdout \o messages \o <<"Done! Structured document sent to the recipients.">>
  /\ pc' = "done"
  /\ exit' = "0"

\* Lines 162-166 and 194: the server takes the message.
SmtpSucceeds ==
  /\ pc = "smtp"
  /\ emailSent' = TRUE
  /\ Finish(<<"Email sent successfully">>)
  /\ UNCHANGED <<entry, raised, ext, chunkIdx, all_structured_outputs,
                 frameVars, splitVars, histVars, recipientFile, recipientsRead,
                 recipient_emails, warned, deliveries, delivered, document>>

\* Lines 167-168 and 194: connecting, STARTTLS, login or sending raises; the
\* exception is caught and printed, and the function returns.
SmtpFails ==
  /\ pc = "smtp"
  /\ emailSent' = FALSE
  /\ Finish(<<"Failed to send email">>)
  /\ UNCHANGED <<entry, raised, ext, chunkIdx, all_structured_outputs,
                 frameVars, splitVars, histVars, recipientFile, recipientsRead,
                 recipient_emails, warned, deliveries, delivered, document>>

(* ----------------------------- specification ---------------------------- *)

Next ==
  \/ CallSmartSplitText
  \/ CallExtractUseCases
  \/ FirstAttempt
  \/ CallReturns
  \/ CallFails
  \/ SleepEnds
  \/ DirectReturn
  \/ DirectRaise
  \/ MainStart
  \/ ReadDocument
  \/ SplitDocument
  \/ ExtractChunk
  \/ AppendOutput
  \/ Abort
  \/ ReadRecipients
  \/ InvokeDelivery
  \/ SmtpSucceeds
  \/ SmtpFails

Spec == Init /\ [][Next]_vars

(* -------------------------------- claims -------------------------------- *)

RECURSIVE Sum(_)
Sum(s) == IF s = <<>> THEN 0 ELSE Head(s) + Sum(Tail(s))

IsPrefix(s, t) == Len(s) <= Len(t) /\ s = SubSeq(t, 1, Len(s))

\* extract_use_cases has reached its return or its raise
ExtractionOver == exState \in {"Success", "Exhausted"}

\* smart_split_text has just returned: chunks holds its result for raw_text
SplitReturned ==
  \/ entry = "smart_split_text" /\ pc = "returned"
  \/ entry = "main" /\ pc = "loop" /\ chunkIdx = 1

max_words_per_chunk == model_max_tokens - buffer_tokens

C2_WaitBeforeAttempt ==
  \A i \in 1..Len(callLog) :
    callLog[i].attempt >= 1 => callLog[i].waited = 2 ^ callLog[i].attempt

\* C2 amended: the wait after failed attempt k (0-indexed) is 2^k seconds, so
\* attempt k >= 1 is preceded by a wait of 2^(k-1) seconds and attempt 0 by none.
C2_WaitAfterAttempt ==
  /\ \A j \in 1..Len(waits) : waits[j] = 2 ^ (j - 1)
  /\ \A i \in 1..Len(callLog) :
       /\ callLog[i].attempt = i - 1
       /\ callLog[i].waited = IF i = 1 THEN 0 ELSE 2 ^ (i - 2)
  /\ (exState = "WaitingBackoff" => wait_time = 2 ^ attempt /\ attempt = calls - 1)

C2_Witness ==
  /\ Len(callLog) = 4
  /\ callLog[4] = [attempt |-> 3, waited |-> 4]
  /\ waits = <<1, 2, 4>>

\* C3: in main, once the extraction of chunk i has exhausted its retries, no
\* remote call is made for a chunk after i, extract_use_cases is not entered
\* again, the outputs are exactly the i - 1 results of the earlier chunks, the
\* recipients are not read and send_docx_via_email is not called.
C3_AbortOnExhaustion ==
  (entry = "main" /\ exhaustedChunk # 0) =>
    /\ \A j \in calledChunks : j <= exhaustedChunk
    /\ extractions = exhaustedChunk
    /\ Len(all_structured_outputs) = exhaustedChunk - 1
    /\ all_structured_outputs = responseFor
    /\ ~recipientsRead
    /\ deliveries = 0
    /\ pc \in {"extract", "failed"}
    /\ (pc = "failed" => exit = "1" /\ stdout = <<>>)

C3_Witness ==
  /\ pc = "failed"
  /\ Len(chunks) = 3
  /\ exhaustedChunk = 2
  /\ calledChunks = {1, 2}
  /\ Len(all_structured_outputs) = 1

\* C4: when send_docx_via_email is invoked its structured_texts are as many as
\* the chunks and the n-th is the response returned for the n-th chunk (and so
\* are the sections of the document); all along, the outputs are a prefix of
\* the responses returned in chunk order, and a step only appends to them.
C4_AtDelivery ==
  /\ (entry = "main" => IsPrefix(all_structured_outputs, responseFor))
  /\ (pc \in {"smtp", "done"} =>
        /\ Len(delivered.structured_texts) = Len(chunks)
        /\ \A n \in 1..Len(chunks) :
             /\ delivered.structured_texts[n] = responseFor[n]
             /\ document[n] = [heading |-> n, text |-> responseFor[n]]
        /\ Len(document) = Len(chunks)
        /\ delivered.structured_texts = all_structured_outputs)

C4_OutputsInOrder ==
  /\ []C4_AtDelivery
  /\ [][IsPrefix(all_structured_outputs, all_structured_outputs')]_vars

C4_Witness ==
  /\ pc = "smtp"
  /\ Len(chunks) = 3
  /\ delivered.structured_texts = <<"r1", "r2", "r1">>

\* C5: a run in which the mail transport or authentication failed ends with a
\* non-zero exit and no success report; a run ends with exit 0 and "Done"
\* reported only if the email was sent.
C5_DeliveryFailureFailsRun ==
  (entry = "main" /\ exit # "running") =>
    /\ (exit = "0" => emailSent)
    /\ ("Done! Structured document sent to the recipients." \in Range(stdout) => emailSent)
    /\ ("Failed to send email" \in Range(stdout) => exit = "1")

\* C6: a text of more than max_words_per_chunk >= 1 words is split into
\* ceil(w / max_words_per_chunk) chunks, each but the last of exactly
\* max_words_per_chunk words, the last of 1 to max_words_per_chunk, and the
\* words of the chunks, in order, are the words of the text.
C6_Chunks ==
  (SplitReturned /\ max_words_per_chunk >= 1
                 /\ Len(split(raw_text)) > max_words_per_chunk) =>
    LET w == Len(split(raw_text))
        m == max_words_per_chunk
        n == Len(chunks)
    IN /\ n = (w + m - 1) \div m
       /\ \A k \in 1..(n - 1) : Len(split(chunks[k])) = m
       /\ Len(split(chunks[n])) \in 1..m
       /\ join(<<>>, [k \in 1..n |-> split(chunks[k])]) = split(raw_text)

C6_Witness ==
  /\ entry = "main"
  /\ pc = "loop"
  /\ chunkIdx = 1
  /\ Len(chunks) = 3
  /\ Len(split(chunks[2])) = DefaultModelMaxTokens - DefaultBufferTokens
  /\ chunks[3] = <<"b">>

\* C7: a text of at most max_words_per_chunk words comes back as one chunk, the
\* text itself; the empty text gives one chunk, the empty string, and main
\* enters extract_use_cases once for an empty document.
C7_SingleChunk ==
  /\ (entry = "smart_split_text" /\ pc = "raised") =>
        Len(split(raw_text)) > max_words_per_chunk
  /\ (SplitReturned /\ Len(split(raw_text)) <= max_words_per_chunk) =>
        /\ chunks = <<raw_text>>
        /\ (raw_text = <<>> => chunks = << <<>> >>)
  /\ (entry = "main" /\ raw_text = <<>> /\ pc \in {"send", "smtp", "done"}) =>
        /\ chunks = << <<>> >>
        /\ extractions = 1
        /\ calledChunks = {1}

C7_Witness ==
  /\ entry = "main"
  /\ pc = "done"
  /\ raw_text = <<>>
  /\ chunks = << <<>> >>
  /\ extractions = 1

\* C8 as stated: within one extraction of a chunk the state only moves from
\* Pending to Calling, from Calling to Success, WaitingBackoff or Exhausted and
\* from WaitingBackoff to Calling; Success and Exhausted are left only by the
\* call ending.
C8_Transition ==
  \/ exState' = exState
  \/ exState = "None" /\ exState' = "Pending"
  \/ exState = "Pending" /\ exState' = "Calling"
  \/ exState = "Calling" /\ exState' \in {"Success", "WaitingBackoff", "Exhausted"}
  \/ exState = "WaitingBackoff" /\ exState' = "Calling"
  \/ exState \in {"Success", "Exhausted"} /\ exState' = "None"

C8_StateMachine == [][entry = "main" => C8_Transition]_vars

\* C9: read_recipients_from_file returns the valid addresses of the file, in
\* their order, and the empty list for an unreadable file; nothing ends the
\* run between the reading and the one call of send_docx_via_email, which is
\* made with that list.
RECURSIVE ValidInOrder(_)
ValidInOrder(lines) ==
  IF lines = <<>> THEN <<>>
  ELSE (IF is_valid_email(strip(Head(lines))) THEN <<strip(Head(lines))>> ELSE <<>>)
         \o ValidInOrder(Tail(lines))

C9_Recipients ==
  /\ recipientsRead =>
       /\ recipient_emails =
            IF recipientFile.readable THEN ValidInOrder(recipientFile.lines) ELSE <<>>
       /\ \A e \in Range(recipient_emails) : e \notin warned
       /\ pc \in {"send", "smtp", "done"}
       /\ raised = "none"
       /\ exit # "1"
       /\ deliveries = (IF pc = "send" THEN 0 ELSE 1)
       /\ (pc # "send" => delivered.recipient_emails = recipient_emails)
  /\ (deliveries > 0 => recipientsRead)

C9_Witness ==
  /\ pc = "done"
  /\ recipientFile.readable
  /\ Len(recipientFile.lines) = 2
  /\ recipientFile.lines[2] = <<"a", "@", "b", ".", "c", "o">>
  /\ recipient_emails = << <<"c", "@", "d", ".", "o", "r", "g">>, <<"a", "@", "b", ".", "c", "o">> >>
  /\ deliveries = 1

\* C10: when extract_use_cases raises, it has made exactly max_retries remote
\* calls and slept after each of them, 2^max_retries - 1 seconds in all (31
\* with the default of main); with max_retries <= 0 it has made no call and no
\* wait.
C10_Exhaustion ==
  (exState = "Exhausted") =>
    /\ failuresBeforeSuccess >= max_retries
    /\ (max_retries >= 1 =>
          /\ calls = max_retries
          /\ Len(waits) = max_retries
          /\ Sum(waits) = 2 ^ max_retries - 1)
    /\ (max_retries <= 0 => calls = 0 /\ waits = <<>> /\ attempt = 0)
    /\ (entry = "main" => Sum(waits) = 31 /\ calls = 5)

C10_Witness ==
  /\ exState = "Exhausted"
  /\ entry = "main"
  /\ waits = <<1, 2, 4, 8, 16>>

====
